---- MODULE Spec2Model ----
(***************************************************************************)
(* Model of streamlit_app.py: the rating engine calculate_team_trueskill   *)
(* and the tier assigner assign_titles.                                    *)
(*                                                                         *)
(* Numbers: a rating's mu and sigma are held in thousandths (4 is 4000,    *)
(* 5.25 is 5250); a rounded rating of the returned series is held in       *)
(* hundredths (5.25 is 525).  Player identifiers are naturals, the seeded  *)
(* player "Charlie" is identifier 0.                                       *)
(***************************************************************************)
EXTENDS Integers, Sequences, FiniteSets, TLC

\* ------------------------------------------------------------------ bounds
\* Rows of the input table, and individual games summed over the table.
MaxRows == 2
MaxGames == 3
\* Largest ranking handed to assign_titles on its own.
MaxRanking == 10

\* ------------------------------------------------------- program constants
Charlie == 0
CharlieMu == 5250
starting_mu == 4000
starting_sigma == 1000

Challenger == "Challenger"
Master == "Master"
Gold == "Gold"
Silver == "Silver"
Bronze == "Bronze"

\* The four slots of a row, in the order the code reads and writes them:
\* team_1_player_left, team_1_player_right, team_2_player_left,
\* team_2_player_right.
Slots == 1..4

\* The slot assignments the input rows are drawn from: four distinct new
\* players, Charlie on team 1, one identifier on both teams (team 1 left
\* and team 2 right), one identifier in both slots of a team with Charlie
\* on team 2.
Lineups == { <<1, 2, 3, 4>>, <<0, 1, 2, 3>>, <<1, 2, 3, 1>>, <<5, 5, 1, 0>> }

\* The rows of the runs checked for termination: the loops' trip counts do
\* not depend on who plays, so one ordinary and one degenerate row do.
FairLineups == { <<0, 1, 2, 3>>, <<1, 2, 3, 1>> }

VARIABLES
    df,       \* the rows iterrows() has yielded so far
    ratings,  \* dict: player -> [mu, sigma]
    g1, g2,   \* iterations done of the two range() loops of the current row
    log,      \* history: per trueskill.rate call, what it was given and gave
    pc,       \* "rating" | "ranked" | "done"
    series,   \* the returned pd.Series, a sequence of [name, rating]
    titles    \* the dict assign_titles returns

vars == <<df, ratings, g1, g2, log, pc, series, titles>>

Empty == [x \in {} |-> 0]

\* d[k] = v on a dict.
Put(d, k, v) == (k :> v) @@ d

Rating(mu, sigma) == [mu |-> mu, sigma |-> sigma]

\* ------------------------------------------------------ the pairwise update
\* trueskill.rate([team1, team2], ranks): an integer stand-in for the
\* library's inference step.  A pure function of the two pairs and the
\* outcome; winners gain, losers lose, more when the result is a surprise,
\* in proportion to the player's own sigma; every sigma shrinks.
TeamMu(team) == team[1].mu + team[2].mu

Surprise(gap) == IF gap < 0 THEN 3 ELSE IF gap = 0 THEN 2 ELSE 1

Shift(r, v, sign) ==
    Rating(r.mu + sign * ((r.sigma * v) \div 10), r.sigma - (r.sigma \div 10))

Rate(team1, team2, ranks) ==
    LET won1 == ranks[1] < ranks[2]
        gap  == IF won1 THEN TeamMu(team1) - TeamMu(team2)
                        ELSE TeamMu(team2) - TeamMu(team1)
        v    == Surprise(gap)
        s1   == IF won1 THEN 1 ELSE -1
    IN  << <<Shift(team1[1], v, s1), Shift(team1[2], v, s1)>>,
           <<Shift(team2[1], v, -s1), Shift(team2[2], v, -s1)>> >>

\* ------------------------------------------------------------ rating engine
UnseenAlways(r, p) == TRUE

\* Lines 17-19: for p in [t1_p1, t1_p2, t2_p1, t2_p2]: if p not in ratings.
Unseen(r, p) == p \notin DOMAIN r

RECURSIVE InitPlayers(_, _, _)
InitPlayers(r, players, i) ==
    IF i > Len(players) THEN r
    ELSE InitPlayers(
             IF Unseen(r, players[i])
             THEN Put(r, players[i], Rating(starting_mu, starting_sigma))
             ELSE r,
             players, i + 1)

InitRowWithGames(r, row) ==
    IF row.s1 + row.s2 = 0 THEN r ELSE InitPlayers(r, row.players, 1)

\* Lines 13-19: the dict after the row's players are initialised.
InitRow(r, row) == InitPlayers(r, row.players, 1)

TeamReadsPop(r, players) ==
    [j \in Slots |->
        IF \E h \in 1..(j - 1) : players[h] = players[j]
        THEN Rating(starting_mu, starting_sigma)
        ELSE r[players[j]]]

\* Lines 25-26 / 32-33: the four beliefs one game reads, by slot.
TeamReads(r, players) ==
    <<r[players[1]], r[players[2]], r[players[3]], r[players[4]]>>

\* Lines 28-29 / 35-36: the four assignments, in slot order.
WriteBack(r, players, new_team1, new_team2) ==
    Put(Put(Put(Put(r, players[1], new_team1[1]),
                    players[2], new_team1[2]),
                players[3], new_team2[1]),
            players[4], new_team2[2])

\* One iteration of either range() loop.
PlayGame(r, players, ranks) ==
    LET read == TeamReads(r, players)
        new  == Rate(<<read[1], read[2]>>, <<read[3], read[4]>>, ranks)
    IN  [read |-> read,
         wrote |-> <<new[1][1], new[1][2], new[2][1], new[2][2]>>,
         ratings |-> WriteBack(r, players, new[1], new[2])]

GamesSoFar == Len(log)

CurrentRow == df[Len(df)]

RowFinishedTeam1 ==
    IF Len(df) = 0 THEN TRUE ELSE g1 = CurrentRow.s1

\* Both range() loops of the current row have run out (or no row was read).
RowFinished ==
    IF Len(df) = 0 THEN TRUE ELSE g1 = CurrentRow.s1 /\ g2 = CurrentRow.s2

Team1FinishedAnytime == TRUE

\* The first loop has run out: range(s2) starts only after range(s1).
Team1Finished == g1 = CurrentRow.s1

Init ==
    /\ df = <<>>
    /\ ratings = Put(Empty, Charlie, Rating(CharlieMu, starting_sigma))
    /\ g1 = 0
    /\ g2 = 0
    /\ log = <<>>
    /\ pc = "rating"
    /\ series = <<>>
    /\ titles = Empty

\* Lines 12-21: iterrows() yields the next row; its players are initialised
\* and its scores read.
NextRowFrom(lineups) ==
    /\ pc = "rating"
    /\ RowFinished
    /\ Len(df) < MaxRows
    /\ \E players \in lineups :
       \E s1 \in 0..(MaxGames - GamesSoFar) :
       \E s2 \in 0..(MaxGames - GamesSoFar - s1) :
          LET row == [players |-> players, s1 |-> s1, s2 |-> s2]
          IN  /\ df' = Append(df, row)
              /\ ratings' = InitRow(ratings, row)
    /\ g1' = 0
    /\ g2' = 0
    /\ UNCHANGED <<log, pc, series, titles>>

NextRow == NextRowFrom(Lineups)

NextRowFair == NextRowFrom(FairLineups)

\* Lines 24-29: one game won by team 1.
Team1Win ==
    /\ pc = "rating"
    /\ Len(df) > 0
    /\ g1 < CurrentRow.s1
    /\ LET out == PlayGame(ratings, CurrentRow.players, <<0, 1>>)
       IN  /\ ratings' = out.ratings
           /\ log' = Append(log, [row |-> Len(df), winner |-> 1,
                                  read |-> out.read, wrote |-> out.wrote])
    /\ g1' = g1 + 1
    /\ UNCHANGED <<df, g2, pc, series, titles>>

\* Lines 31-36: one game won by team 2.
Team2Win ==
    /\ pc = "rating"
    /\ Len(df) > 0
    /\ Team1Finished
    /\ g2 < CurrentRow.s2
    /\ LET out == PlayGame(ratings, CurrentRow.players, <<1, 0>>)
       IN  /\ ratings' = out.ratings
           /\ log' = Append(log, [row |-> Len(df), winner |-> 2,
                                  read |-> out.read, wrote |-> out.wrote])
    /\ g2' = g2 + 1
    /\ UNCHANGED <<df, g1, pc, series, titles>>

Round1(mu) == (mu \div 100) * 10

\* Line 38: round(rating.mu, 2), thousandths to hundredths, ties to even.
Round2(mu) ==
    LET q == mu \div 10
        r == mu % 10
    IN  IF r < 5 THEN q
        ELSE IF r > 5 THEN q + 1
        ELSE IF q % 2 = 0 THEN q ELSE q + 1

\* Line 38: the dict comprehension {name: round(rating.mu, 2)}.
Rounded(r) == [p \in DOMAIN r |-> Round2(r[p].mu)]

PrecedesAscending(a, b) == a <= b

\* Line 39: sort_values(ascending=False) puts a before b when a >= b.
Precedes(a, b) == a >= b

RECURSIVE SortFromByValue(_, _)
SortFromByValue(d, S) ==
    IF S = {} THEN { <<>> }
    ELSE LET first == {p \in S : \A q \in S : Precedes(d[p], d[q])}
         IN  UNION { { <<[name |-> p, rating |-> d[p]]>> \o rest :
                           rest \in SortFromByValue(
                                        d, {q \in S : d[q] # d[p]}) } :
                     p \in first }

\* Line 39: every order sort_values(ascending=False) can return.  The sort
\* is not stable, so entries of equal value come out in any order.
RECURSIVE SortFrom(_, _)
SortFrom(d, S) ==
    IF S = {} THEN { <<>> }
    ELSE LET first == {p \in S : \A q \in S : Precedes(d[p], d[q])}
         IN  UNION { { <<[name |-> p, rating |-> d[p]]>> \o rest :
                           rest \in SortFrom(d, S \ {p}) } :
                     p \in first }

SortValues(d) == SortFrom(d, DOMAIN d)

\* Lines 38-40: the loop over the rows has run out; round, sort, return.
Finalize ==
    /\ pc = "rating"
    /\ RowFinished
    /\ pc' = "ranked"
    /\ series' \in SortValues(Rounded(ratings))
    /\ UNCHANGED <<df, ratings, g1, g2, log, titles>>

\* ------------------------------------------------------------ tier assigner
\* Lines 71-73.
BronzeCount(remaining) ==
    (remaining \div 3) + (IF remaining % 3 >= 1 THEN 1 ELSE 0)

SilverCountSwapped(remaining) ==
    (remaining \div 3) + (IF remaining % 3 >= 1 THEN 1 ELSE 0)

SilverCount(remaining) ==
    (remaining \div 3) + (IF remaining % 3 >= 2 THEN 1 ELSE 0)

GoldCount(remaining) == remaining \div 3

\* Lines 77-80, 83-86, 89-92: for i in range(count): if idx < total_players:
\* titles[index[idx]] = label; idx += 1.  idx counts from 0, a sequence
\* from 1.
RECURSIVE FillTier(_, _, _, _)
FillTier(st, count, label, rs) ==
    IF count = 0 THEN st
    ELSE FillTier(
             IF st.idx < Len(rs)
             THEN [titles |-> Put(st.titles, rs[st.idx + 1].name, label),
                   idx |-> st.idx + 1]
             ELSE st,
             count - 1, label, rs)

TopTitlesSlip(rs) ==
    LET total_players == Len(rs)
        t1 == IF total_players >= 1 THEN Put(Empty, rs[1].name, Challenger)
                                    ELSE Empty
        t2 == IF total_players >= 2 THEN Put(t1, rs[2].name, Master) ELSE t1
    IN  IF total_players >= 3 THEN Put(t2, rs[2].name, Master) ELSE t2

\* Lines 55-63: Challenger for the top entry, Master for the next two.
TopTitles(rs) ==
    LET total_players == Len(rs)
        t1 == IF total_players >= 1 THEN Put(Empty, rs[1].name, Challenger)
                                    ELSE Empty
        t2 == IF total_players >= 2 THEN Put(t1, rs[2].name, Master) ELSE t1
    IN  IF total_players >= 3 THEN Put(t2, rs[3].name, Master) ELSE t2

\* Lines 43-94.
assign_titles(rs) ==
    LET total_players == Len(rs)
        remaining_players == total_players - 3
    IN  IF total_players = 0 THEN Empty
        ELSE IF remaining_players > 0
        THEN LET gold   == FillTier([titles |-> TopTitles(rs), idx |-> 3],
                                    GoldCount(remaining_players), Gold, rs)
                 silver == FillTier(gold, SilverCount(remaining_players),
                                    Silver, rs)
                 bronze == FillTier(silver, BronzeCount(remaining_players),
                                    Bronze, rs)
             IN  bronze.titles
        ELSE TopTitles(rs)

\* Line 131: titles = assign_titles(ratings).
AssignTitles ==
    /\ pc = "ranked"
    /\ pc' = "done"
    /\ titles' = assign_titles(series)
    /\ UNCHANGED <<df, ratings, g1, g2, log, series>>

\* ----------------------------------------------------------- specifications
Next == NextRow \/ Team1Win \/ Team2Win \/ Finalize \/ AssignTitles

Spec == Init /\ [][Next]_vars

\* The code is one synchronous thread: a loop iteration, the return and the
\* call of assign_titles happen whenever they are the next statement.  The
\* table may end after any row, so no further row is promised.
NextFair ==
    NextRowFair \/ Team1Win \/ Team2Win \/ Finalize \/ AssignTitles

FairSpec ==
    /\ Init
    /\ [][NextFair]_vars
    /\ WF_vars(Team1Win)
    /\ WF_vars(Team2Win)
    /\ WF_vars(Finalize)
    /\ WF_vars(AssignTitles)

\* assign_titles on its own: rankings of 0..MaxRanking distinct players,
\* the identifiers rotated and mirrored over the ranks, values descending
\* with ties.
Ranking(n, shift, mirror) ==
    [i \in 1..n |->
        [name |-> IF mirror THEN (n - i + shift) % n ELSE (i - 1 + shift) % n,
         rating |-> CharlieMu \div 10 - (i \div 2)]]

Rankings ==
    { <<>> } \cup
    { Ranking(n, shift, mirror) :
          <<n, shift, mirror>> \in
              { t \in (1..MaxRanking) \X (0..MaxRanking) \X BOOLEAN :
                    t[2] < t[1] } }

InitTitles ==
    /\ df = <<>>
    /\ ratings = Empty
    /\ g1 = 0
    /\ g2 = 0
    /\ log = <<>>
    /\ pc = "ranked"
    /\ series \in Rankings
    /\ titles = Empty

NextTitles == AssignTitles

SpecTitles == InitTitles /\ [][NextTitles]_vars

\* ------------------------------------------------------------------ claims
Names(rs) == {rs[i].name : i \in 1..Len(rs)}

Places(rs, p) == {i \in 1..Len(rs) : rs[i].name = p}

Returned == pc \in {"ranked", "done"}

\* C1: assign_titles returns a mapping whose key set is the ranking's player
\* set: every ranked player has a title, nobody else has one, there are as
\* many titles as ranks, and the empty ranking gives the empty mapping.
TierCompleteness ==
    pc = "done" =>
        /\ DOMAIN titles = Names(series)
        /\ Cardinality(DOMAIN titles) = Len(series)
        /\ \A p \in DOMAIN titles :
               titles[p] \in {Challenger, Master, Gold, Silver, Bronze}
        /\ (series = <<>> => titles = Empty)

TierCompletenessWitness ==
    /\ pc = "done"
    /\ Len(series) = 8
    /\ Cardinality(DOMAIN titles) = 8

\* The reference rule of C2, rank i counted from 0 among n players.
ReferenceTier(i, n) ==
    LET remaining == n - 3
        base == remaining \div 3
        rem == remaining % 3
        gold == base
        silver == base + (IF rem >= 2 THEN 1 ELSE 0)
    IN  IF i = 0 THEN Challenger
        ELSE IF i <= 2 THEN Master
        ELSE IF i < 3 + gold THEN Gold
        ELSE IF i < 3 + gold + silver THEN Silver
        ELSE Bronze

TitleAt(i) ==
    IF series[i + 1].name \in DOMAIN titles THEN titles[series[i + 1].name]
    ELSE "none"

\* C2: the player at rank i has the tier of the reference rule (Challenger,
\* Master, Master, then gold = base, silver = base + [rem >= 2], bronze =
\* base + [rem >= 1]); with ten players ranks 3-4 are Gold, 5-6 Silver and
\* 7-9 Bronze.
TierBands ==
    pc = "done" =>
        /\ \A i \in 0..(Len(series) - 1) :
               TitleAt(i) = ReferenceTier(i, Len(series))
        /\ Len(series) = 10 =>
               /\ \A i \in {3, 4} : TitleAt(i) = Gold
               /\ \A i \in {5, 6} : TitleAt(i) = Silver
               /\ \A i \in {7, 8, 9} : TitleAt(i) = Bronze

TierBandsWitness ==
    /\ pc = "done"
    /\ Len(series) = 10
    /\ TitleAt(4) = Gold
    /\ TitleAt(6) = Silver
    /\ TitleAt(7) = Bronze

\* The belief a player holds before any game: the seed for Charlie, the
\* run's prior for everybody else.
PriorOf(p) ==
    IF p = Charlie THEN Rating(5250, starting_sigma)
    ELSE Rating(starting_mu, starting_sigma)

Mentioned == {df[i].players[j] : <<i, j>> \in (1..Len(df)) \X Slots}

PlayersOf(k) == df[log[k].row].players

InGame(k, p) == \E j \in Slots : PlayersOf(k)[j] = p

GamesOf(i) == {k \in 1..Len(log) : log[k].row = i}

WinsOf(i, team) == {k \in GamesOf(i) : log[k].winner = team}

\* The row's two loops have both run out.
RowDone(i) == i < Len(df) \/ pc # "rating" \/ (g1 = df[i].s1 /\ g2 = df[i].s2)

\* The last slot of the row a player fills: the assignment that stays.
LastSlot(players, p) ==
    CHOOSE j \in Slots : players[j] = p /\ \A h \in (j + 1)..4 : players[h] # p

\* What the updates before update k have made of the player's belief: what
\* the last of them the player took part in wrote, the prior if there is
\* none.
RECURSIVE BeliefBefore(_, _)
BeliefBefore(k, p) ==
    IF k = 1 THEN PriorOf(p)
    ELSE IF InGame(k - 1, p)
         THEN log[k - 1].wrote[LastSlot(PlayersOf(k - 1), p)]
         ELSE BeliefBefore(k - 1, p)

\* C3: a row with scores (s1, s2) applies s1 + s2 updates, the s1 wins of
\* team 1 first and then the s2 wins of team 2, and every update reads, for
\* each slot, what the update just before it wrote for that player: within
\* a row that is the preceding game of the same row, and the first game of
\* a row reads what the player's last game in earlier rows wrote (the prior
\* if there was none).
ScoreExpansion ==
    /\ \A k \in 1..Len(log) : \A j \in Slots :
           LET p == PlayersOf(k)[j]
           IN  /\ log[k].read[j] = BeliefBefore(k, p)
               /\ (k > 1 /\ log[k - 1].row = log[k].row) =>
                      log[k].read[j] =
                          log[k - 1].wrote[LastSlot(PlayersOf(k), p)]
    /\ \A k \in 1..(Len(log) - 1) : log[k].row <= log[k + 1].row
    /\ \A i \in 1..Len(df) :
           /\ Cardinality(WinsOf(i, 1)) <= df[i].s1
           /\ Cardinality(WinsOf(i, 2)) <= df[i].s2
           /\ \A k \in WinsOf(i, 2) :
                  /\ Cardinality(WinsOf(i, 1)) = df[i].s1
                  /\ \A h \in WinsOf(i, 1) : h < k
           /\ RowDone(i) =>
                  /\ Cardinality(WinsOf(i, 1)) = df[i].s1
                  /\ Cardinality(WinsOf(i, 2)) = df[i].s2
                  /\ Cardinality(GamesOf(i)) = df[i].s1 + df[i].s2

ScoreExpansionWitness ==
    /\ Len(df) = 1
    /\ df[1].s1 = 2
    /\ df[1].s2 = 1
    /\ Len(log) = 3
    /\ <<log[1].winner, log[2].winner, log[3].winner>> = <<1, 1, 2>>
    /\ log[2].read # log[1].read
    /\ log[3].read # log[2].read

\* C4: every player named in any slot of any row is in the returned ranking
\* exactly once and has exactly one entry in the titles of that ranking.
Coverage ==
    /\ Returned =>
           \A p \in Mentioned : Cardinality(Places(series, p)) = 1
    /\ pc = "done" =>
           \A p \in Mentioned : p \in DOMAIN titles

CoverageWitness ==
    /\ pc = "done"
    /\ Len(df) = 2
    /\ Cardinality(Mentioned) = 6
    /\ \E i \in 1..(Len(series) - 1) : series[i].rating = series[i + 1].rating

\* C5: with no rows the ranking is [(Charlie, 5.25)] and the titles are
\* {Charlie: Challenger}.
ZeroMatches ==
    /\ (Returned /\ df = <<>>) =>
           series = << [name |-> Charlie, rating |-> 525] >>
    /\ (pc = "done" /\ df = <<>>) =>
           /\ DOMAIN titles = {Charlie}
           /\ titles[Charlie] = Challenger

ZeroMatchesWitness ==
    /\ pc = "done"
    /\ df = <<>>
    /\ Len(series) = 1

\* C6: the returned ranking holds every player's rounded mean and is in
\* descending order of it: each entry is >= the one after it, and the
\* entry at rank 0 has the greatest rounded mean of all players.
RankingDescending ==
    Returned =>
        /\ \A i \in 1..Len(series) :
               series[i].rating = Round2(ratings[series[i].name].mu)
        /\ \A i \in 1..(Len(series) - 1) :
               series[i].rating >= series[i + 1].rating
        /\ \A p \in DOMAIN ratings :
               series[1].rating >= Round2(ratings[p].mu)

RankingDescendingWitness ==
    /\ pc = "ranked"
    /\ Len(series) >= 5
    /\ series[1].rating > series[2].rating
    /\ series[2].rating > series[Len(series)].rating
    /\ series[1].name # Charlie

\* C7: the mapping starts as {Charlie: (5.25, sigma)}; its keys are always
\* Charlie and the players of the rows read so far; a player's entry is the
\* prior until the player's first update and is never set back afterwards
\* (it is what the player's last update left); so the first update a player
\* takes part in reads the prior, 5.25 for Charlie and starting_mu for
\* anybody else.
LazyInit ==
    /\ df = <<>> => ratings = (Charlie :> Rating(5250, starting_sigma))
    /\ DOMAIN ratings = {Charlie} \cup Mentioned
    /\ \A p \in DOMAIN ratings : ratings[p] = BeliefBefore(Len(log) + 1, p)
    /\ \A k \in 1..Len(log) : \A j \in Slots :
           LET p == PlayersOf(k)[j]
           IN  (\A h \in 1..(k - 1) : ~InGame(h, p)) =>
                   log[k].read[j] = PriorOf(p)

LazyInitWitness ==
    /\ Len(df) = 2
    /\ Len(log) = 3
    /\ log[1].row = 1
    /\ log[3].row = 2
    /\ InGame(1, Charlie)
    /\ InGame(3, Charlie)
    /\ \E p \in DOMAIN ratings : ~InGame(1, p) /\ InGame(3, p)
    /\ ratings[Charlie] # PriorOf(Charlie)

ZeroRow(row) == row.s1 = 0 /\ row.s2 = 0

Repeats(row) ==
    \E i \in Slots : \E j \in Slots : i # j /\ row.players[i] = row.players[j]

\* Reading a 0-0 row, and any step taken while it is the current row.
ZeroScoreRowStep ==
    /\ (Len(df') = Len(df) + 1 /\ ZeroRow(df'[Len(df')])) =>
           /\ log' = log
           /\ \A p \in DOMAIN ratings :
                  p \in DOMAIN ratings' /\ ratings'[p] = ratings[p]
           /\ \A j \in Slots :
                  LET p == df'[Len(df')].players[j]
                  IN  /\ p \in DOMAIN ratings'
                      /\ p \notin DOMAIN ratings =>
                             ratings'[p] = Rating(starting_mu, starting_sigma)
    /\ (Len(df) > 0 /\ Len(df') = Len(df) /\ ZeroRow(df[Len(df)])
            /\ pc = "rating") =>
           log' = log /\ ratings' = ratings

ZeroScoreRowRanked ==
    Returned =>
        \A i \in 1..Len(df) : ZeroRow(df[i]) =>
            /\ GamesOf(i) = {}
            /\ \A j \in Slots : Places(series, df[i].players[j]) # {}

\* C8: reading a 0-0 row leaves the log of updates and every existing
\* entry as they were and inserts the row's new players at the prior; no
\* update follows while it is the current row; its players are in the
\* returned ranking.
ZeroScoreRow == [][ZeroScoreRowStep]_vars /\ []ZeroScoreRowRanked

ZeroScoreRowWitness ==
    /\ Returned
    /\ Len(df) = 2
    /\ ZeroRow(df[2])
    /\ ~ZeroRow(df[1])
    /\ \E j \in Slots : \A h \in Slots : df[2].players[j] # df[1].players[h]

RECURSIVE SumScores(_)
SumScores(rows) ==
    IF rows = <<>> THEN 0
    ELSE rows[1].s1 + rows[1].s2 + SumScores(Tail(rows))

\* C9: calculate_team_trueskill returns, and when it has returned the
\* number of updates applied is the sum of s1 + s2 over all rows.
Terminates ==
    /\ <>Returned
    /\ [](Returned => Len(log) = SumScores(df))

TerminatesWitness ==
    /\ pc = "ranked"
    /\ Len(df) = 2
    /\ Len(log) = 3
    /\ df[1].s2 > 0
    /\ df[2].s1 > 0
    /\ Repeats(df[2])

\* C10: a row that names one player in several slots is processed like any
\* other: the run never stops on it, all its s1 + s2 updates are applied,
\* every slot of the repeated player reads the same single belief in each
\* of them, and the player is in the returned ranking once.
RepeatedPlayer ==
    /\ (pc = "rating" /\ Len(df) > 0) =>
           (Repeats(df[Len(df)]) =>
                ENABLED (Team1Win \/ Team2Win \/ Finalize))
    /\ \A k \in 1..Len(log) : \A i \in Slots : \A j \in (i + 1)..4 :
           PlayersOf(k)[i] = PlayersOf(k)[j] =>
               /\ log[k].read[i] = log[k].read[j]
               /\ log[k].read[i] = BeliefBefore(k, PlayersOf(k)[i])
    /\ Returned =>
           \A i \in 1..Len(df) : Repeats(df[i]) =>
               /\ Cardinality(GamesOf(i)) = df[i].s1 + df[i].s2
               /\ \A j \in Slots :
                      Cardinality(Places(series, df[i].players[j])) = 1

RepeatedPlayerWitness ==
    /\ pc = "done"
    /\ Len(df) = 1
    /\ df[1].players[1] = df[1].players[4]
    /\ df[1].players[1] # df[1].players[2]
    /\ df[1].s1 = 2
    /\ df[1].s2 = 1
    /\ Len(log) = 3

====
